---- MODULE Spec2Model ----
(***************************************************************************)
(* Heart-rate telemetry pipeline: the producer callback (hr_callbacl.py)   *)
(* publishes JSON messages to a Pub/Sub topic; the consumer's              *)
(* message_callback (subscribe_hr.py) decodes, validates and persists each *)
(* delivery as a HeartRateReading (models.py) and acks or nacks it.        *)
(***************************************************************************)
EXTENDS Integers, Sequences, FiniteSets, TLC

\* ------------------------------------------------------------------ bounds
NumWorkers == 2        \* concurrent callback invocations of the streaming pull
MaxMsgs == 2           \* messages ever put on the topic in one behaviour
MaxDbFailures == 1     \* transient storage failures in one behaviour
MaxCrashes == 1        \* worker crashes in one behaviour
MaxNow == 2            \* ticks of the server clock
MaxHandled == 3        \* notifications handed to the producer's callback

Workers == 1..NumWorkers

\* ---------------------------------------------------------- value universe
\* One record shape for every Python / JSON value, so values of different
\* types can be compared: t is the type tag, n a number, s a sequence of
\* numbers, x a string.
Val(t, n, s, x) == [t |-> t, n |-> n, s |-> s, x |-> x]

\* Python values
PyNone == Val("none", 0, <<>>, "")
PyNum(n) == Val("num", n, <<>>, "")
PyStr(x) == Val("str", 0, <<>>, x)
PyList(s) == Val("list", 0, s, "")
PyTuple(s) == Val("tuple", 0, s, "")

\* JSON values; JAbsent marks a key that the object does not have
JNull == Val("null", 0, <<>>, "")
JNum(n) == Val("number", n, <<>>, "")
JStr(x) == Val("string", 0, <<>>, x)
JArr(s) == Val("array", 0, s, "")
JAbsent == Val("absent", 0, <<>>, "")

\* json.dumps of one Python value: None -> null, list and tuple -> array
json_dumps_value(v) ==
  CASE v.t = "none" -> JNull
    [] v.t = "num" -> JNum(v.n)
    [] v.t = "str" -> JStr(v.x)
    [] v.t = "list" -> JArr(v.s)
    [] v.t = "tuple" -> JArr(v.s)

\* json.loads of one JSON value: null -> None, array -> list (never tuple)
json_loads_value(j) ==
  CASE j.t = "null" -> PyNone
    [] j.t = "number" -> PyNum(j.n)
    [] j.t = "string" -> PyStr(j.x)
    [] j.t = "array" -> PyList(j.s)

\* A payload is the byte string of a message.  enc says how far it decodes:
\* "bad_utf8" (bytes.decode raises UnicodeDecodeError), "bad_json" (text,
\* json.loads raises JSONDecodeError), "json" (a JSON document).  shape is
\* the document's top-level kind; the five fields are the members of an
\* object document.
Payload(enc, shape, ty, ts, bpm, rr, en) ==
  [enc |-> enc, shape |-> shape, type |-> ty, timestamp |-> ts,
   bpm |-> bpm, rr_interval |-> rr, energy |-> en]

BadUtf8 == Payload("bad_utf8", "none", JAbsent, JAbsent, JAbsent, JAbsent, JAbsent)
BadJson == Payload("bad_json", "none", JAbsent, JAbsent, JAbsent, JAbsent, JAbsent)
NonObject == Payload("json", "array", JAbsent, JAbsent, JAbsent, JAbsent, JAbsent)
JObject(ty, ts, bpm, rr, en) == Payload("json", "object", ty, ts, bpm, rr, en)


\* ------------------------------------------------- consumer: pure helpers
\* data.get(key): the member's Python value, None when the key is absent
DataGet(j) == IF j.t = "absent" THEN PyNone ELSE json_loads_value(j)

\* Python truthiness of a value (for `rr_interval or 0`, `if rr_interval`)
Truthy(v) ==
  CASE v.t = "none" -> FALSE
    [] v.t = "num" -> v.n # 0
    [] v.t = "str" -> v.x # ""
    [] v.t = "list" -> v.s # <<>>
    [] v.t = "tuple" -> v.s # <<>>

\* Variant: the last element of the list is taken
NormalizeRRMutLast(v) ==
  IF v.t = "list"
    THEN (IF Truthy(v) THEN PyNum(v.s[Len(v.s)]) ELSE PyNum(0))
    ELSE v
\* `rr_interval[0] if rr_interval else 0` applied when rr_interval is a list
NormalizeRR(v) ==
  IF v.t = "list"
    THEN (IF Truthy(v) THEN PyNum(v.s[1]) ELSE PyNum(0))
    ELSE v

\* Variant: a missing type counts as "HR" (data.get('type', 'HR'))
IsHRTypeMutDefault(p) == p.type = JAbsent \/ DataGet(p.type) = PyStr("HR")
\* `data.get('type') != 'HR'`, negated
IsHRType(p) == DataGet(p.type) = PyStr("HR")

\* Variant: only the timestamp is required
RequiredPresentMutTsOnly(p) == DataGet(p.timestamp) # PyNone
\* `sensor_timestamp is None or bpm is None`, negated
RequiredPresent(p) ==
  DataGet(p.timestamp) # PyNone /\ DataGet(p.bpm) # PyNone

\* The try-block of message_callback up to the create call, as the path it
\* takes: "DecodeError" (except json.JSONDecodeError), "Exception" (except
\* Exception: UnicodeDecodeError from bytes.decode, AttributeError from
\* .get on a document that is not a dict), "Ignored", "ValidationError",
\* or "Valid" (reaches HeartRateReading.objects.create).
Classify(p) ==
  CASE p.enc = "bad_utf8" -> "Exception"
    [] p.enc = "bad_json" -> "DecodeError"
    [] p.enc = "json" /\ p.shape # "object" -> "Exception"
    [] p.enc = "json" /\ p.shape = "object" ->
         IF ~IsHRType(p) THEN "Ignored"
         ELSE IF ~RequiredPresent(p) THEN "ValidationError"
         ELSE "Valid"

\* Variant: the general handler acks
ExceptionSettleMutAck == "ack"
\* `except Exception` of message_callback settles the message with nack
ExceptionSettle == "nack"

\* Variant: the 'Ignoring non-HR message' path returns without message.ack()
AfterClassifyMutNoSettle(c) ==
  CASE c = "DecodeError" -> "ack"
    [] c = "Exception" -> ExceptionSettle
    [] c = "Ignored" -> "done"
    [] c = "ValidationError" -> "ack"
    [] c = "Valid" -> "create"
\* Variant: a valid message is acked without reaching the create call
AfterClassifyMutAckEarly(c) ==
  CASE c = "DecodeError" -> "ack"
    [] c = "Exception" -> ExceptionSettle
    [] c = "Ignored" -> "ack"
    [] c = "ValidationError" -> "ack"
    [] c = "Valid" -> "ack"
\* Where the callback goes after the steps above: the next call it makes
AfterClassify(c) ==
  CASE c = "DecodeError" -> "ack"
    [] c = "Exception" -> ExceptionSettle
    [] c = "Ignored" -> "ack"
    [] c = "ValidationError" -> "ack"
    [] c = "Valid" -> "create"

\* What each path writes to stdout before settling the message
LogOf(c) ==
  CASE c = "DecodeError" -> "Failed to decode JSON"
    [] c = "Exception" -> "Error processing message"
    [] c = "Ignored" -> "Ignoring non-HR message"
    [] c = "ValidationError" -> "Invalid message"
    [] c = "Valid" -> "none"

\* Variant: bpm and rr_interval are passed in each other's place
CreateKwargsMutSwap(p) ==
  LET rr == NormalizeRR(DataGet(p.rr_interval)) IN
  [sensor_timestamp |-> DataGet(p.timestamp),
   bpm |-> IF Truthy(rr) THEN rr ELSE PyNum(0),
   rr_interval |-> DataGet(p.bpm),
   energy |-> DataGet(p.energy)]
\* Keyword arguments of HeartRateReading.objects.create
CreateKwargs(p) ==
  LET rr == NormalizeRR(DataGet(p.rr_interval)) IN
  [sensor_timestamp |-> DataGet(p.timestamp),
   bpm |-> DataGet(p.bpm),
   rr_interval |-> IF Truthy(rr) THEN rr ELSE PyNum(0),
   energy |-> DataGet(p.energy)]

\* ------------------------------------------------------------ data model
\* A stored column value: SQL NULL or a number
DbNull == [null |-> TRUE, v |-> 0]
DbNum(n) == [null |-> FALSE, v |-> n]

\* The value a numeric column stores for a Python value (None -> NULL)
ToDb(v) == IF v.t = "num" THEN DbNum(v.n) ELSE DbNull

\* The model's fields accept a value: the three integer columns are NOT NULL
\* and need a number; energy (null=True) needs a number or None.  A string
\* that is not a numeral, or a list, makes the field's conversion raise.
FieldsStorable(kw) ==
  /\ kw.sensor_timestamp.t = "num"
  /\ kw.bpm.t = "num"
  /\ kw.rr_interval.t = "num"
  /\ kw.energy.t \in {"num", "none"}

\* The row objects.create inserts: id from the sequence, created_at = now
HeartRateReading(id, kw, at, m) ==
  [id |-> id,
   sensor_timestamp |-> ToDb(kw.sensor_timestamp),
   bpm |-> ToDb(kw.bpm),
   rr_interval |-> ToDb(kw.rr_interval),
   energy |-> ToDb(kw.energy),
   created_at |-> at,
   msg |-> m]

\* Variant: a field that does not convert is stored as NULL
ObjectsCreateMutPartial(rows, kw, at, m, dbOk) ==
  IF dbOk THEN Append(rows, HeartRateReading(Len(rows) + 1, kw, at, m))
  ELSE rows
\* Variant: the insert reuses the primary key of the newest row
ObjectsCreateMutReplace(rows, kw, at, m, dbOk) ==
  IF dbOk /\ FieldsStorable(kw)
    THEN (IF rows = <<>>
            THEN <<HeartRateReading(1, kw, at, m)>>
            ELSE [rows EXCEPT ![Len(rows)] = HeartRateReading(Len(rows), kw, at, m)])
    ELSE rows
\* Variant: get_or_create, no insert when an equal reading is stored
ObjectsCreateMutDedup(rows, kw, at, m, dbOk) ==
  IF dbOk /\ FieldsStorable(kw)
       /\ ~\E k \in DOMAIN rows :
             /\ rows[k].sensor_timestamp = ToDb(kw.sensor_timestamp)
             /\ rows[k].bpm = ToDb(kw.bpm)
             /\ rows[k].rr_interval = ToDb(kw.rr_interval)
             /\ rows[k].energy = ToDb(kw.energy)
    THEN Append(rows, HeartRateReading(Len(rows) + 1, kw, at, m))
    ELSE rows
\* objects.create against the table `rows`: the table afterwards.  The
\* insert happens only when storage is available and every field converts;
\* otherwise it raises and the table is as before.
ObjectsCreate(rows, kw, at, m, dbOk) ==
  IF dbOk /\ FieldsStorable(kw)
    THEN Append(rows, HeartRateReading(Len(rows) + 1, kw, at, m))
    ELSE rows

\* objects.create raises: storage unavailable, or a field does not convert
CreateRaises(kw, dbOk) == ~(dbOk /\ FieldsStorable(kw))

\* ------------------------------------------------- producer: pure helpers
\* A sensor notification ('HR', tstamp, hr_data, energy).  hr_data is the
\* tuple (bpm, rr) -- rr a number, a list of numbers or None -- or, in its
\* other form, one list [bpm, rr1, rr2, ...] (items).
HrTuple(bpm, rr) == [tuple |-> TRUE, bpm |-> bpm, rr |-> rr, items |-> <<>>]
HrList(items) == [tuple |-> FALSE, bpm |-> 0, rr |-> PyNone, items |-> items]
Notification(ts, hr, en) ==
  [hr_type |-> PyStr("HR"), timestamp |-> PyNum(ts), hr_data |-> hr, energy |-> en]

\* `bpm, rr_interval = hr_data if isinstance(hr_data, tuple)
\*                     else (hr_data[0], hr_data)`
UnpackBpm(hr) == IF hr.tuple THEN PyNum(hr.bpm) ELSE PyNum(hr.items[1])
UnpackRR(hr) == IF hr.tuple THEN hr.rr ELSE PyList(hr.items)

\* The try-block raises: hr_data[0] on an empty list, list(None)
BuildRaises(data) ==
  \/ ~data.hr_data.tuple /\ data.hr_data.items = <<>>
  \/ UnpackRR(data.hr_data).t \notin {"num", "list", "tuple"}

\* message_data: `rr_interval if isinstance(rr_interval, (int, float))
\*                else list(rr_interval)`
MessageData(data) ==
  LET rr == UnpackRR(data.hr_data) IN
  [type |-> data.hr_type,
   timestamp |-> data.timestamp,
   bpm |-> UnpackBpm(data.hr_data),
   rr_interval |-> IF rr.t = "num" THEN rr ELSE PyList(rr.s),
   energy |-> data.energy]

\* json.dumps(message_data).encode('utf-8')
json_dumps(md) ==
  JObject(json_dumps_value(md.type), json_dumps_value(md.timestamp),
          json_dumps_value(md.bpm), json_dumps_value(md.rr_interval),
          json_dumps_value(md.energy))

\* main, 274-283: the publisher global after set-up.  outcome is how
\* init_pubsub ended: "ok", "auth_error" (DefaultCredentialsError, 248-255)
\* or "error" (library missing, credentials file missing, any other
\* exception); in the last two it returns (None, None).
InitOutcomes == {"ok", "auth_error", "error"}
SetupPublisher(configured, outcome) == configured /\ outcome = "ok"
\* What init_pubsub and main print about the channel
SetupDiagnostic(configured, outcome) ==
  CASE ~configured -> "No Pub/Sub configuration provided"
    [] outcome = "ok" -> "Initialized Pub/Sub publisher"
    [] outcome = "auth_error" -> "Error: Authentication failed"
    [] OTHER -> "Error initializing Pub/Sub"

\* Variant: the callback takes the publishing branch whatever the globals
UsesPubSubMutAlways(publisher) == TRUE
\* `if pubsub_publisher is not None and pubsub_topic_path is not None` (124)
UsesPubSub(publisher) == publisher

\* pubsub_publisher.publish(...) raises: on None (AttributeError) or when
\* the client library refuses the call
PublishRaises(publisher, publishOk) == ~publisher \/ ~publishOk

\* Which step of the try block (126-146) fails, if any
FailureOf(data, publisher, publishOk) ==
  IF BuildRaises(data) THEN "build"
  ELSE IF PublishRaises(publisher, publishOk) THEN "publish"
  ELSE "none"

\* Variant: the handler covers the building of the message only
HandlerMissesMutPublish(kind) == kind = "publish"
\* `except Exception` (147): the failures it lets through -- none
HandlerMisses(kind) == FALSE

\* How one invocation of heartrate_callback ends: "printed" (152),
\* "published" (146), "failed" (148-149) or "raised" (the exception leaves
\* the callback)
CallbackOutcome(data, publisher, publishOk) ==
  IF ~UsesPubSub(publisher) THEN "printed"
  ELSE LET kind == FailureOf(data, publisher, publishOk) IN
       IF kind = "none" THEN "published"
       ELSE IF HandlerMisses(kind) THEN "raised"
       ELSE "failed"

\* The line the callback prints last
CallbackLog(outcome) ==
  CASE outcome = "published" -> "Published to Pub/Sub"
    [] outcome = "failed" -> "Error publishing to Pub/Sub"
    [] outcome = "printed" -> "data"
    [] OTHER -> "Traceback"

\* Variant: the client library sends the newest message first
PublishMutFront(ch, m) == <<m>> \o ch
\* publisher.publish(topic, bytes): the topic afterwards
Publish(ch, m) == Append(ch, m)

\* Variant: the test loop never looks at the event
LoopContinuesMutAlways(quit) == TRUE
\* `while not quittest.is_set()` (205)
LoopContinues(quit) == ~quit

\* Variant: main connects whatever scan() returned
AfterScanMutConnect(found) == "connect"
\* main, 293-298: `if device is None: ... sys.exit(-4)`
AfterScan(found) == IF found THEN "connect" ELSE "exit_no_device"

\* sys.exit(-4) as the operating system reports it (one byte)
ExitNoDevice == (-4) % 256

\* ------------------------------------------------------------------ state
VARIABLES
  ppc,               \* producer: "start" before main's set-up, then "running"
                     \* (callback invoked by an unnamed source) or the
                     \* position of main's task (see the producer process)
  pubsub_publisher,  \* producer global: TRUE when a publisher object is set
  plog,              \* producer: what heartrate_callback printed last
  channel,           \* the topic/subscription: every message ever published
  workers,           \* consumer: one record per concurrent message_callback
  readings,          \* the HeartRateReading table, in insertion order
  now,               \* server clock (timezone.now)
  dbFailures,        \* storage failures so far
  crashes,           \* worker crashes so far
  producer,          \* producer process: mode, events, connection (see below)
  handled,           \* producer: the notifications handed to the callback
  cpc,               \* consumer command: position and start-up failure
  response           \* query API: the last response sent

vars == <<ppc, pubsub_publisher, plog, channel, workers, readings, now,
          dbFailures, crashes, producer, handled, cpc, response>>
producerVars == <<ppc, pubsub_publisher, plog, producer, handled>>
consumerVars == <<workers, readings, dbFailures, crashes, cpc, response>>

NoNotification == Notification(0, HrList(<<>>), PyNone)
\* A message on the channel.  status: "queued" (to be delivered), "leased"
\* (handed to a callback, not yet settled), "acked" (gone).  nacked records
\* that some delivery was nacked; src is the notification it was built from;
\* writes counts the deliveries whose create call returned.
Message(p, has, n) ==
  [payload |-> p, status |-> "queued", nacked |-> FALSE,
   from_producer |-> has, src |-> n, writes |-> 0]

\* The producer process before main runs.  init: how the set-up of the
\* channel ended; test_mode: --test; add_reader_support: the platform flag;
\* quit: the quitclient / quittest event; reader: stdin reader registered;
\* connected: inside the BleakClient context with the sensor linked;
\* notifying: start_notify is in force; scans: calls of scan(); status: the
\* process exit status once it has ended; thread: the keyboard thread is
\* waiting for input (no add_reader support); device: what scan() returned;
\* diag: what the set-up printed about the channel.
ProducerStart ==
  [init |-> "none", test_mode |-> FALSE, add_reader_support |-> TRUE,
   quit |-> FALSE, reader |-> FALSE, connected |-> FALSE,
   notifying |-> FALSE, scans |-> 0, connects |-> 0, status |-> 0,
   thread |-> FALSE, device |-> "unknown", diag |-> "none"]

\* One entry of `handled`: a notification handed to heartrate_callback by
\* the sensor layer or the generator, how the call ended, and whether the
\* termination event was already set
Handled(data, outcome, quit) ==
  [data |-> data, outcome |-> outcome, after_quit |-> quit]

\* The subscribe_hr command: pc is "start" (handle not yet run),
\* "listening" (streaming pull open) or "exit_error" (CommandError raised:
\* status 1 and `error` on stderr); failure is what the channel answered
\* at start-up.
ConsumerCommand(pc, failure, error) ==
  [pc |-> pc, failure |-> failure, error |-> error]

\* Statistics of an empty response
NoStats ==
  [count |-> 0, avg_bpm |-> DbNull, min_bpm |-> DbNull, max_bpm |-> DbNull,
   avg_rr_interval |-> DbNull, time_range_start |-> DbNull,
   time_range_end |-> DbNull]
\* The `minutes` query parameter as the view sees it: kind "absent", "empty"
\* (?minutes=), "text" (not an integer numeral), "int" (n minutes) or "huge"
\* (an integer numeral beyond what timedelta and datetime can hold)
Minutes(kind, n) == [kind |-> kind, n |-> n]
\* A response of the query API: the operation, the `minutes` parameter of
\* the request, the HTTP status, the ids of the readings in the body (in
\* order) and, for stats, the aggregate
Response(op, m, status, ids, st) ==
  [op |-> op, req |-> m, status |-> status, ids |-> ids, stats |-> st]
NoResponse == Response("none", Minutes("absent", 0), 0, <<>>, NoStats)

IdleWorker ==
  [pc |-> "idle", msg |-> 0, acks |-> 0, nacks |-> 0, wrote |-> 0,
   log |-> "none"]

Init ==
  /\ ppc = "start"
  /\ pubsub_publisher = FALSE
  /\ plog = "none"
  /\ channel = <<>>
  /\ workers = [w \in Workers |-> IdleWorker]
  /\ readings = <<>>
  /\ now = 0
  /\ dbFailures = 0
  /\ crashes = 0
  /\ producer = ProducerStart
  /\ handled = <<>>
  /\ cpc = ConsumerCommand("listening", "none", "none")
  /\ response = NoResponse

\* ------------------------------------------------------- input domains
HR == JStr("HR")
ACC == JStr("ACC")
BadText == "abc"   \* a string where a number is expected

\* The notifications and foreign payloads of the pipeline specification
Notifications ==
  { Notification(5, HrTuple(3, PyNum(7)), PyNone),
    Notification(5, HrTuple(3, PyList(<<7, 6>>)), PyNum(2)),
    Notification(5, HrList(<<3, 7>>), PyNone) }

ForeignPayloads ==
  { BadUtf8, BadJson, NonObject,
    JObject(ACC, JNum(5), JNum(3), JNum(7), JNull),
    JObject(HR, JAbsent, JNum(3), JNum(7), JNull),
    JObject(HR, JNum(5), JStr(BadText), JNum(7), JNull) }

\* The wide domains of the single-message specification
WideTypes == {HR, ACC, JAbsent}
WideTimestamps == {JAbsent, JNull, JNum(0), JNum(5), JStr(BadText)}
WideBpms == {JAbsent, JNull, JNum(0), JNum(3), JStr(BadText)}
WideRRs == {JAbsent, JNull, JNum(0), JNum(7), JArr(<<>>), JArr(<<7, 6>>),
            JArr(<<0, 6>>), JStr(BadText)}
WideEnergies == {JAbsent, JNull, JNum(2), JStr(BadText)}
WidePayloads ==
  {BadUtf8, BadJson, NonObject} \cup
  { JObject(ty, ts, b, rr, en) :
      ty \in WideTypes, ts \in WideTimestamps, b \in WideBpms,
      rr \in WideRRs, en \in WideEnergies }

WideHrData ==
  { HrTuple(b, rr) : b \in {0, 3},
      rr \in {PyNone, PyNum(0), PyNum(7), PyList(<<>>), PyList(<<7, 6>>)} }
  \cup { HrList(<<>>), HrList(<<3>>), HrList(<<3, 7, 6>>) }
WideNotifications ==
  { Notification(ts, hr, en) :
      ts \in {0, 5}, hr \in WideHrData, en \in {PyNone, PyNum(2)} }

\* ---------------------------------------------------------------- producer
\* main: pubsub_publisher is set when both options are given and
\* init_pubsub succeeds; otherwise it stays None
MainSetup ==
  /\ ppc = "start"
  /\ \E configured \in BOOLEAN, initOk \in BOOLEAN :
       pubsub_publisher' = (configured /\ initOk)
  /\ ppc' = "running"
  /\ UNCHANGED <<plog, channel, now, producer, handled>>
  /\ UNCHANGED consumerVars

\* heartrate_callback(data), one whole invocation: what it publishes and
\* what it prints
CallbackBody(data, publishOk) ==
  LET outcome == CallbackOutcome(data, pubsub_publisher, publishOk) IN
  /\ pubsub_publisher => Len(channel) < MaxMsgs
  /\ channel' = (IF outcome = "published"
                   THEN Publish(channel,
                          Message(json_dumps(MessageData(data)), TRUE, data))
                   ELSE channel)
  /\ plog' = CallbackLog(outcome)

\* The callback invoked by a source the model does not follow
heartrate_callback(data) ==
  /\ ppc = "running"
  /\ \E publishOk \in BOOLEAN :
       /\ CallbackBody(data, publishOk)
       /\ ppc' = (IF CallbackOutcome(data, pubsub_publisher, publishOk) = "raised"
                    THEN "crashed" ELSE ppc)
  /\ UNCHANGED <<pubsub_publisher, now, producer, handled>>
  /\ UNCHANGED consumerVars

\* ------------------------------------------------------ producer process
\* main's task from launch to exit.  ppc is the await at which the task is
\* suspended: "scan" (293), "connect" (83), "start_notify" (103), "wait"
\* (106), "stop_notify" (111), "exit_context" (leaving the `async with`),
\* "sleep" (209); "test_loop" is the loop test of line 205, reached without
\* an await; "bye", "exit_no_device", "connect_failed" and "crashed" are
\* final.  The keyboard handler and the disconnect callback run on the same
\* event loop, so they interleave with the task only at its awaits.

\* main, 273-292, and in test mode run_test_mode up to its loop (192-202)
Main(test, configured, outcome, readerSupport) ==
  /\ ppc = "start"
  /\ pubsub_publisher' = SetupPublisher(configured, outcome)
  /\ producer' = [producer EXCEPT
       !.init = (IF configured THEN outcome ELSE "absent"),
       !.diag = SetupDiagnostic(configured, outcome),
       !.test_mode = test,
       !.add_reader_support = readerSupport,
       !.reader = test /\ readerSupport,
       !.thread = test /\ ~readerSupport]
  /\ ppc' = (IF test THEN "test_loop" ELSE "scan")
  /\ UNCHANGED <<plog, channel, now, handled>>
  /\ UNCHANGED consumerVars

\* scan() returns (293-298)
Scan(found) ==
  /\ ppc = "scan"
  /\ ppc' = AfterScan(found)
  /\ producer' = [producer EXCEPT
       !.scans = @ + 1,
       !.device = (IF found THEN "found" ELSE "none"),
       !.status = (IF AfterScan(found) = "exit_no_device" THEN ExitNoDevice ELSE @)]
  /\ UNCHANGED <<pubsub_publisher, plog, channel, now, handled>>
  /\ UNCHANGED consumerVars

\* `async with BleakClient(...)` entered, keyboard input hooked (83-95); a
\* failed connection leaves main as an uncaught exception
Connect(ok) ==
  /\ ppc = "connect"
  /\ IF ok
       THEN /\ ppc' = "start_notify"
            /\ producer' = [producer EXCEPT
                 !.connected = TRUE, !.connects = @ + 1,
                 !.reader = producer.add_reader_support,
                 !.thread = ~producer.add_reader_support]
       ELSE /\ ppc' = "connect_failed"
            /\ producer' = [producer EXCEPT !.connects = @ + 1, !.status = 1]
  /\ UNCHANGED <<pubsub_publisher, plog, channel, now, handled>>
  /\ UNCHANGED consumerVars

\* heartrate.start_notify() returns; the task goes on to quitclient.wait()
StartNotify ==
  /\ ppc = "start_notify"
  /\ ppc' = "wait"
  /\ producer' = [producer EXCEPT !.notifying = producer.connected]
  /\ UNCHANGED <<pubsub_publisher, plog, channel, now, handled>>
  /\ UNCHANGED consumerVars

\* keyboard_handler (61-72, 182-190): the user hits Enter
KeyboardQuit ==
  /\ ppc \in {"start_notify", "wait", "stop_notify", "exit_context", "sleep"}
  /\ producer.reader \/ producer.thread
  /\ ~producer.quit
  /\ producer' = [producer EXCEPT !.quit = TRUE, !.thread = FALSE]
  /\ UNCHANGED <<ppc, pubsub_publisher, plog, channel, now, handled>>
  /\ UNCHANGED consumerVars

\* disconnected_callback (74-78): the sensor drops the link
Disconnected ==
  /\ ppc \in {"wait", "stop_notify"}
  /\ producer.connected
  /\ producer' = [producer EXCEPT
       !.connected = FALSE, !.notifying = FALSE, !.quit = TRUE]
  /\ UNCHANGED <<ppc, pubsub_publisher, plog, channel, now, handled>>
  /\ UNCHANGED consumerVars

\* The caller's side of one invocation of the callback
Deliver(data, publishOk) ==
  /\ Len(handled) < MaxHandled
  /\ CallbackBody(data, publishOk)
  /\ handled' = Append(handled,
       Handled(data, CallbackOutcome(data, pubsub_publisher, publishOk),
               producer.quit))

\* Live mode: the sensor layer receives a frame and calls hr_callback;
\* frames come for as long as notifications are on and the link is up
Notify(data, publishOk) ==
  /\ ppc \in {"wait", "stop_notify"}
  /\ producer.notifying /\ producer.connected
  /\ Deliver(data, publishOk)
  /\ ppc' = (IF CallbackOutcome(data, pubsub_publisher, publishOk) = "raised"
               THEN "crashed" ELSE ppc)
  /\ UNCHANGED <<pubsub_publisher, now, producer>>
  /\ UNCHANGED consumerVars

\* quitclient.wait() returns (106-113)
WaitReturns ==
  /\ ppc = "wait"
  /\ producer.quit
  /\ IF producer.connected
       THEN /\ ppc' = "stop_notify"
            /\ UNCHANGED producer
       ELSE /\ ppc' = "exit_context"
            /\ producer' = [producer EXCEPT !.reader = FALSE]
  /\ UNCHANGED <<pubsub_publisher, plog, channel, now, handled>>
  /\ UNCHANGED consumerVars

\* heartrate.stop_notify() returns, then remove_reader (111-113)
StopNotify ==
  /\ ppc = "stop_notify"
  /\ ppc' = "exit_context"
  /\ producer' = [producer EXCEPT !.notifying = FALSE, !.reader = FALSE]
  /\ UNCHANGED <<pubsub_publisher, plog, channel, now, handled>>
  /\ UNCHANGED consumerVars

\* The context manager disconnects; main prints "Bye." (309) and returns
ExitContext ==
  /\ ppc = "exit_context"
  /\ ppc' = "bye"
  /\ producer' = [producer EXCEPT !.connected = FALSE, !.notifying = FALSE]
  /\ UNCHANGED <<pubsub_publisher, plog, channel, now, handled>>
  /\ UNCHANGED consumerVars

\* Test mode, one turn of the loop (205-209): generate, call, sleep
TestIteration(data, publishOk) ==
  /\ ppc = "test_loop"
  /\ LoopContinues(producer.quit)
  /\ Deliver(data, publishOk)
  /\ ppc' = (IF CallbackOutcome(data, pubsub_publisher, publishOk) = "raised"
               THEN "crashed" ELSE "sleep")
  /\ UNCHANGED <<pubsub_publisher, now, producer>>
  /\ UNCHANGED consumerVars

\* asyncio.sleep returns (209)
WakeUp ==
  /\ ppc = "sleep"
  /\ ppc' = "test_loop"
  /\ UNCHANGED <<pubsub_publisher, plog, channel, now, producer, handled>>
  /\ UNCHANGED consumerVars

\* The loop ends: remove_reader (211-212), back in main, "Bye." (309)
TestExit ==
  /\ ppc = "test_loop"
  /\ ~LoopContinues(producer.quit)
  /\ ppc' = "bye"
  /\ producer' = [producer EXCEPT !.reader = FALSE]
  /\ UNCHANGED <<pubsub_publisher, plog, channel, now, handled>>
  /\ UNCHANGED consumerVars

\* The steps main's task takes once the termination event is set: every
\* await it is suspended at returns
TaskStep ==
  \/ StartNotify
  \/ WaitReturns
  \/ StopNotify
  \/ ExitContext
  \/ WakeUp
  \/ TestExit

\* Any other publisher of the topic: the payload is arbitrary bytes
ForeignPublish(p) ==
  /\ Len(channel) < MaxMsgs
  /\ channel' = Append(channel, Message(p, FALSE, NoNotification))
  /\ UNCHANGED <<now>>
  /\ UNCHANGED producerVars
  /\ UNCHANGED consumerVars

\* ---------------------------------------------------------------- consumer
\* How the channel answers the command at start-up: "ok";
\* "credentials_error" (SubscriberClient() raises DefaultCredentialsError,
\* 119); "permission_denied" and "not_found" (the streaming pull ends with
\* that error: result() raises it at 135 and again at 140)
SubscribeOutcomes == {"ok", "credentials_error", "permission_denied", "not_found"}

\* Variant: the error of the streaming pull ends in the handler of 136-140
AfterRunSubscriberMutSwallow(outcome) ==
  CASE outcome = "ok" -> ConsumerCommand("listening", "none", "none")
    [] outcome = "credentials_error" ->
         ConsumerCommand("exit_error", outcome, "Error")
    [] OTHER -> ConsumerCommand("stopped", outcome, "Subscriber error")
\* handle, 93-100: the command after run_subscriber
AfterRunSubscriber(outcome) ==
  CASE outcome = "ok" -> ConsumerCommand("listening", "none", "none")
    [] outcome = "credentials_error" ->
         ConsumerCommand("exit_error", outcome, "Error")
    [] outcome = "permission_denied" ->
         ConsumerCommand("exit_error", outcome, "Permission denied")
    [] OTHER -> ConsumerCommand("exit_error", outcome, "Subscription not found")

\* The exit status of the command: CommandError makes manage.py exit with 1
ExitStatus(c) == IF c.pc = "exit_error" THEN 1 ELSE 0

\* handle (61-100) with run_subscriber up to the open streaming pull
Handle(outcome) ==
  /\ cpc.pc = "start"
  /\ cpc' = AfterRunSubscriber(outcome)
  /\ UNCHANGED <<channel, now, workers, readings, dbFailures, crashes, response>>
  /\ UNCHANGED producerVars

\* The streaming pull hands message i to a free callback thread
Receive(w, i) ==
  /\ cpc.pc = "listening"
  /\ workers[w].pc = "idle"
  /\ i \in DOMAIN channel
  /\ channel[i].status = "queued"
  /\ channel' = [channel EXCEPT ![i].status = "leased"]
  /\ workers' = [workers EXCEPT ![w] = [IdleWorker EXCEPT !.pc = "decode", !.msg = i]]
  /\ UNCHANGED <<readings, dbFailures, crashes, now, cpc, response>>
  /\ UNCHANGED producerVars

\* message_callback from json.loads to the validation of required fields
Decode(w) ==
  /\ workers[w].pc = "decode"
  /\ LET c == Classify(channel[workers[w].msg].payload) IN
       workers' = [workers EXCEPT ![w].pc = AfterClassify(c), ![w].log = LogOf(c)]
  /\ UNCHANGED <<channel, readings, dbFailures, crashes, now, cpc, response>>
  /\ UNCHANGED producerVars

\* HeartRateReading.objects.create(...) and the 'Saved' line; storage may
\* be unavailable (dbOk = FALSE)
Create(w) ==
  /\ workers[w].pc = "create"
  /\ \E dbOk \in BOOLEAN :
       /\ dbOk \/ dbFailures < MaxDbFailures
       /\ LET i == workers[w].msg
              rows == ObjectsCreate(readings, CreateKwargs(channel[i].payload),
                                    now, i, dbOk)
              ok == ~CreateRaises(CreateKwargs(channel[i].payload), dbOk)
          IN /\ readings' = rows
             /\ channel' = [channel EXCEPT ![i].writes = IF ok THEN @ + 1 ELSE @]
             /\ workers' = [workers EXCEPT
                  ![w].pc = IF ok THEN "ack" ELSE ExceptionSettle,
                  ![w].wrote = IF ok THEN Len(rows) ELSE 0,
                  ![w].log = IF ok THEN "Saved" ELSE "Error processing message"]
       /\ dbFailures' = IF dbOk THEN dbFailures ELSE dbFailures + 1
  /\ UNCHANGED <<crashes, now, cpc, response>>
  /\ UNCHANGED producerVars

\* Variant: the callback acks the oldest message that is out for delivery
AckMutOldestLeased(w) ==
  /\ workers[w].pc = "ack"
  /\ LET j == CHOOSE x \in DOMAIN channel :
                /\ channel[x].status = "leased"
                /\ \A y \in DOMAIN channel : channel[y].status = "leased" => x <= y
     IN channel' = [channel EXCEPT ![j].status = "acked"]
  /\ workers' = [workers EXCEPT ![w].pc = "done", ![w].acks = @ + 1]
  /\ UNCHANGED <<readings, dbFailures, crashes, now, cpc, response>>
  /\ UNCHANGED producerVars
\* message.ack()
Ack(w) ==
  /\ workers[w].pc = "ack"
  /\ channel' = [channel EXCEPT ![workers[w].msg].status = "acked"]
  /\ workers' = [workers EXCEPT ![w].pc = "done", ![w].acks = @ + 1]
  /\ UNCHANGED <<readings, dbFailures, crashes, now, cpc, response>>
  /\ UNCHANGED producerVars

\* message.nack(): the channel will deliver the message again
Nack(w) ==
  /\ workers[w].pc = "nack"
  /\ channel' = [channel EXCEPT ![workers[w].msg].status = "queued",
                                ![workers[w].msg].nacked = TRUE]
  /\ workers' = [workers EXCEPT ![w].pc = "done", ![w].nacks = @ + 1]
  /\ UNCHANGED <<readings, dbFailures, crashes, now, cpc, response>>
  /\ UNCHANGED producerVars

\* message_callback returns; the thread is free again
Return(w) ==
  /\ workers[w].pc = "done"
  /\ workers' = [workers EXCEPT ![w] = IdleWorker]
  /\ UNCHANGED <<channel, readings, dbFailures, crashes, now, cpc, response>>
  /\ UNCHANGED producerVars

\* The worker dies inside the callback; an unsettled message's lease
\* expires and the channel delivers it again
Crash(w) ==
  /\ workers[w].pc \in {"decode", "create", "ack", "nack"}
  /\ crashes < MaxCrashes
  /\ crashes' = crashes + 1
  /\ channel' = [channel EXCEPT ![workers[w].msg].status = "queued"]
  /\ workers' = [workers EXCEPT ![w] = IdleWorker]
  /\ UNCHANGED <<readings, dbFailures, now, cpc, response>>
  /\ UNCHANGED producerVars

\* The server clock advances
Tick ==
  /\ now < MaxNow
  /\ now' = now + 1
  /\ UNCHANGED <<channel>>
  /\ UNCHANGED producerVars
  /\ UNCHANGED consumerVars

\* --------------------------------------------------------------- query API
MinutesParams ==
  { Minutes("absent", 0), Minutes("empty", 0), Minutes("text", 0),
    Minutes("int", 0), Minutes("int", 1), Minutes("int", 0 - 1),
    Minutes("huge", 0) }

FewMinutesParams == { Minutes("absent", 0), Minutes("int", 0) }

\* get_queryset raises: timedelta(minutes=...) overflows (only ValueError
\* is caught)
QuerysetRaises(m) == m.kind = "huge"

\* get_queryset's filter: the row indexes selected at time t.  `if minutes`
\* skips an absent or empty value; int() failing (ValueError) leaves the
\* set unfiltered; otherwise created_at >= now - minutes.
FilteredMutStrict(rows, m, t) ==
  IF m.kind = "int"
    THEN { k \in DOMAIN rows : rows[k].created_at > t - m.n }
    ELSE DOMAIN rows
Filtered(rows, m, t) ==
  IF m.kind = "int"
    THEN { k \in DOMAIN rows : rows[k].created_at >= t - m.n }
    ELSE DOMAIN rows

\* Variant: order_by('created_at'), oldest first
OrderedDescMutAsc(rows, K) ==
  { q \in [1..Cardinality(K) -> K] :
      /\ \A a, b \in 1..Cardinality(K) : a # b => q[a] # q[b]
      /\ \A a, b \in 1..Cardinality(K) :
           a < b => rows[q[a]].created_at <= rows[q[b]].created_at }
\* order_by('-created_at') over the rows K: every order the database may
\* return, rows with equal created_at in any order
OrderedDesc(rows, K) ==
  { q \in [1..Cardinality(K) -> K] :
      /\ \A a, b \in 1..Cardinality(K) : a # b => q[a] # q[b]
      /\ \A a, b \in 1..Cardinality(K) :
           a < b => rows[q[a]].created_at >= rows[q[b]].created_at }

RECURSIVE SumOver(_, _, _)
SumOver(rows, K, field) ==
  IF K = {} THEN 0
  ELSE LET k == CHOOSE x \in K : TRUE
       IN rows[k][field].v + SumOver(rows, K \ {k}, field)

\* round(total / count, 1) in tenths, halves to the even tenth
RoundedMean(total, count) ==
  LET q == (10 * total) \div count
      r == (10 * total) % count
  IN IF 2 * r < count THEN q
     ELSE IF 2 * r > count THEN q + 1
     ELSE IF q % 2 = 0 THEN q ELSE q + 1

MinOf(S) == CHOOSE x \in S : \A y \in S : x <= y
MaxOf(S) == CHOOSE x \in S : \A y \in S : x >= y

\* queryset.aggregate(...) and the rounding of the two means (in tenths)
Aggregate(rows, K) ==
  IF K = {} THEN NoStats
  ELSE [count |-> Cardinality(K),
        avg_bpm |-> DbNum(RoundedMean(SumOver(rows, K, "bpm"), Cardinality(K))),
        min_bpm |-> DbNum(MinOf({rows[k].bpm.v : k \in K})),
        max_bpm |-> DbNum(MaxOf({rows[k].bpm.v : k \in K})),
        avg_rr_interval |->
          DbNum(RoundedMean(SumOver(rows, K, "rr_interval"), Cardinality(K))),
        time_range_start |-> DbNum(MinOf({rows[k].created_at : k \in K})),
        time_range_end |-> DbNum(MaxOf({rows[k].created_at : k \in K}))]

\* The ids of the rows q, in order
IdsOf(rows, q) == [a \in DOMAIN q |-> rows[q[a]].id]

\* A query leaves everything but the response as it is
QueryFrame ==
  /\ UNCHANGED <<channel, workers, readings, now, dbFailures, crashes, cpc>>
  /\ UNCHANGED producerVars

\* GET /heartrate/?minutes=m
List(m) ==
  /\ IF QuerysetRaises(m)
       THEN response' = Response("list", m, 500, <<>>, NoStats)
       ELSE \E q \in OrderedDesc(readings, Filtered(readings, m, now)) :
              response' = Response("list", m, 200, IdsOf(readings, q), NoStats)
  /\ QueryFrame

\* GET /heartrate/{id}/?minutes=m
Retrieve(id, m) ==
  /\ IF QuerysetRaises(m)
       THEN response' = Response("retrieve", m, 500, <<>>, NoStats)
       ELSE IF \E k \in Filtered(readings, m, now) : readings[k].id = id
         THEN response' = Response("retrieve", m, 200, <<id>>, NoStats)
         ELSE response' = Response("retrieve", m, 404, <<>>, NoStats)
  /\ QueryFrame

\* GET /heartrate/latest/
Latest ==
  /\ IF readings = <<>>
       THEN response' = Response("latest", Minutes("absent", 0), 404, <<>>, NoStats)
       ELSE \E q \in OrderedDesc(readings, DOMAIN readings) :
              response' = Response("latest", Minutes("absent", 0), 200, <<readings[q[1]].id>>, NoStats)
  /\ QueryFrame

\* GET /heartrate/stats/?minutes=m
Stats(m) ==
  /\ IF QuerysetRaises(m)
       THEN response' = Response("stats", m, 500, <<>>, NoStats)
       ELSE response' = Response("stats", m, 200, <<>>,
                                 Aggregate(readings, Filtered(readings, m, now)))
  /\ QueryFrame

\* The response has gone out to the client
ResponseSent ==
  /\ response # NoResponse
  /\ response' = NoResponse
  /\ QueryFrame

\* The four read operations, the window drawn from P
QueryStep(P) ==
  \/ \E m \in P : List(m)
  \/ \E id \in 1..(MaxMsgs + MaxCrashes), m \in P : Retrieve(id, m)
  \/ Latest
  \/ \E m \in P : Stats(m)

\* -------------------------------------------------------- specifications
ConsumerStep ==
  \/ \E w \in Workers, i \in 1..MaxMsgs : Receive(w, i)
  \/ \E w \in Workers : Decode(w)
  \/ \E w \in Workers : Create(w)
  \/ \E w \in Workers : Ack(w)
  \/ \E w \in Workers : Nack(w)
  \/ \E w \in Workers : Return(w)
  \/ \E w \in Workers : Crash(w)

Next ==
  \/ MainSetup
  \/ \E data \in Notifications : heartrate_callback(data)
  \/ \E p \in ForeignPayloads : ForeignPublish(p)
  \/ ConsumerStep
  \/ Tick

\* The pipeline: producer, foreign publishers, concurrent consumer workers
Spec == Init /\ [][Next]_vars

\* One message, drawn from the wide domains, through the same pipeline
NextSingle ==
  \/ MainSetup
  \/ channel = <<>> /\ \E data \in WideNotifications : heartrate_callback(data)
  \/ channel = <<>> /\ \E p \in WidePayloads : ForeignPublish(p)
  \/ ConsumerStep

SpecSingle == Init /\ [][NextSingle]_vars

\* The pipeline under the scheduling the code relies on: a callback that
\* has started runs to its end, and the channel keeps delivering every
\* message that is queued (first delivery, and redelivery after a nack or an
\* expired lease).  Storage failures and crashes are finite in number.  The
\* server clock plays no part in delivery and stands still here.
NextDelivery ==
  \/ MainSetup
  \/ \E data \in Notifications : heartrate_callback(data)
  \/ \E p \in ForeignPayloads : ForeignPublish(p)
  \/ ConsumerStep

FairSpec ==
  /\ Init /\ [][NextDelivery]_vars
  /\ \A w \in Workers :
       /\ WF_vars(Decode(w))
       /\ WF_vars(Create(w))
       /\ WF_vars(Ack(w))
       /\ WF_vars(Nack(w))
       /\ WF_vars(Return(w))
  /\ \A i \in 1..MaxMsgs : SF_vars(\E w \in Workers : Receive(w, i))

\* The consumer alone: concurrent callbacks on messages of a small domain
ConsumerPayloads ==
  { JObject(HR, JNum(5), JNum(3), JNum(7), JNull),
    JObject(HR, JNum(0), JNum(4), JArr(<<6>>), JNum(2)),
    JObject(HR, JNum(5), JStr(BadText), JNum(7), JNull) }

NextConsumer ==
  \/ \E p \in ConsumerPayloads : ForeignPublish(p)
  \/ ConsumerStep

SpecConsumer == Init /\ [][NextConsumer]_vars

\* The consumer and the query API, freely interleaved
QueryPayloads ==
  { JObject(HR, JNum(5), JNum(3), JNum(7), JNull),
    JObject(HR, JNum(0), JNum(4), JArr(<<6>>), JNum(2)),
    JObject(ACC, JNum(5), JNum(3), JNum(7), JNull),
    JObject(HR, JNum(5), JAbsent, JNum(7), JNull) }

NextQuery ==
  \/ \E p \in QueryPayloads : ForeignPublish(p)
  \/ ConsumerStep
  \/ QueryStep(FewMinutesParams)

SpecQuery == Init /\ [][NextQuery]_vars

\* The query API over a store that the consumer fills while the clock
\* runs: one request at a time, answered against the store as it stands,
\* the window drawn from every kind of `minutes` value
WindowPayloads ==
  { JObject(HR, JNum(5), JNum(3), JNum(7), JNull),
    JObject(HR, JNum(0), JNum(4), JArr(<<6>>), JNum(2)) }

NextWindow ==
  \/ /\ response = NoResponse
     /\ \/ \E p \in WindowPayloads : ForeignPublish(p)
        \/ ConsumerStep
        \/ Tick
  \/ /\ response = NoResponse
     /\ QueryStep(MinutesParams)
  \/ ResponseSent

SpecWindow == Init /\ [][NextWindow]_vars

\* The producer process alone, from launch to exit, in both modes
ProcessStep(N, P) ==
  \/ \E test, configured, readerSupport \in BOOLEAN, outcome \in InitOutcomes :
       Main(test, configured, outcome, readerSupport)
  \/ \E found \in BOOLEAN : Scan(found)
  \/ \E ok \in BOOLEAN : Connect(ok)
  \/ KeyboardQuit
  \/ Disconnected
  \/ \E data \in N, publishOk \in P : Notify(data, publishOk)
  \/ \E data \in N, publishOk \in P : TestIteration(data, publishOk)
  \/ TaskStep

\* A notification the try block cannot encode: list(None) raises
MalformedNotification == Notification(5, HrTuple(3, PyNone), PyNone)
ProcessNotifications == Notifications \cup {MalformedNotification}

NextProcess == ProcessStep(ProcessNotifications, BOOLEAN)

SpecProcess == Init /\ [][NextProcess]_vars

\* The event loop runs every task that is ready, and the awaited calls of
\* the sensor library return
FairSpecProcess == SpecProcess /\ WF_vars(TaskStep)

\* Both processes from launch, with messages of other publishers waiting on
\* the subscription: the producer's set-up of the channel and what follows,
\* the consumer command's start-up and, when it gets there, its callbacks
InitStartup ==
  /\ ppc = "start"
  /\ pubsub_publisher = FALSE
  /\ plog = "none"
  /\ channel = <<>>
  /\ workers = [w \in Workers |-> IdleWorker]
  /\ readings = <<>>
  /\ now = 0
  /\ dbFailures = 0
  /\ crashes = 0
  /\ producer = ProducerStart
  /\ handled = <<>>
  /\ cpc = ConsumerCommand("start", "none", "none")
  /\ response = NoResponse

StartupNotifications == { Notification(5, HrTuple(3, PyNum(7)), PyNone) }
StartupPayloads == { JObject(HR, JNum(0), JNum(4), JArr(<<6>>), JNum(2)) }

NextStartup ==
  \/ ProcessStep(StartupNotifications, {TRUE})
  \/ \E outcome \in SubscribeOutcomes : Handle(outcome)
  \/ \E p \in StartupPayloads : ForeignPublish(p)
  \/ ConsumerStep

SpecStartup == InitStartup /\ [][NextStartup]_vars

\* ------------------------------------------------ vocabulary of the claims
Busy(w) == workers[w].pc # "idle"
PayloadOf(w) == channel[workers[w].msg].payload
Present(j) == j # JAbsent /\ j # JNull
IsObject(p) == p.enc = "json" /\ p.shape = "object"

\* type "HR", timestamp and bpm present
ValidHR(p) == IsObject(p) /\ p.type = HR /\ Present(p.timestamp) /\ Present(p.bpm)

\* a valid HR message whose fields all have the types of the wire format
WellTyped(p) ==
  /\ ValidHR(p)
  /\ p.timestamp.t = "number"
  /\ p.bpm.t = "number"
  /\ p.rr_interval.t \in {"number", "array", "null", "absent"}
  /\ p.energy.t \in {"number", "null", "absent"}

\* the payload is not a JSON document at all
Undecodable(p) == p.enc # "json"

\* permanently malformed, data-shaped: undecodable, not an object, or an HR
\* object with missing or wrongly typed fields
Malformed(p) ==
  \/ Undecodable(p)
  \/ ~IsObject(p)
  \/ p.type = HR /\ ~WellTyped(p)

ReadingsOf(i) == { k \in DOMAIN readings : readings[k].msg = i }

\* the scalar the wire format's rr_interval stands for
ScalarRR(j) ==
  IF j.t = "number" THEN j.n
  ELSE IF j.t = "array" /\ Len(j.s) > 0 THEN Head(j.s)
  ELSE 0

\* -------------------------------------------------------------------- C1
\* C1: in a delivery of a valid HR message the callback does not ack (nor
\* stand at the ack call) unless this delivery has written a reading of the
\* message; once it has written, it never nacks, and when it returns it has
\* acked exactly once.
C1_AckOnlyAfterWrite ==
  \A w \in Workers :
    (Busy(w) /\ ValidHR(PayloadOf(w))) =>
      /\ (workers[w].acks > 0 \/ workers[w].pc = "ack") =>
           /\ workers[w].wrote \in ReadingsOf(workers[w].msg)
      /\ workers[w].wrote # 0 =>
           /\ workers[w].nacks = 0
           /\ workers[w].pc # "nack"
           /\ workers[w].acks <= 1
           /\ workers[w].pc = "done" => workers[w].acks = 1

C1_Witness ==
  \E w \in Workers :
    /\ workers[w].pc = "done"
    /\ ValidHR(PayloadOf(w))
    /\ workers[w].wrote \in ReadingsOf(workers[w].msg)
    /\ workers[w].acks = 1
    /\ workers[w].nacks = 0

\* -------------------------------------------------------------------- C2
\* C2: a delivery of a payload that is not a JSON document is acked exactly
\* once, is never nacked and writes no reading.
C2_UndecodableAcked ==
  \A w \in Workers :
    (Busy(w) /\ Undecodable(PayloadOf(w))) =>
      /\ workers[w].pc # "nack"
      /\ workers[w].nacks = 0
      /\ workers[w].wrote = 0
      /\ workers[w].pc = "done" => workers[w].acks = 1

\* -------------------------------------------------------------------- C3
\* C3: the callback nacks only a delivery whose storage write failed for a
\* transient reason: no delivery of a permanently malformed message is
\* nacked (or stands at the nack call).
C3_NackOnlyTransient ==
  \A w \in Workers :
    (Busy(w) /\ (workers[w].pc = "nack" \/ workers[w].nacks > 0)) =>
      ~Malformed(PayloadOf(w))

\* -------------------------------------------------------------------- C4
\* C4: a delivery of a valid HR message whose write failed (it is past the
\* create call and has written nothing) never acks and nacks exactly once;
\* the failing create step leaves the table as it was.
C4_FailedWriteState ==
  \A w \in Workers :
    (/\ workers[w].pc \in {"ack", "nack", "done"}
     /\ ValidHR(PayloadOf(w))
     /\ workers[w].wrote = 0) =>
      /\ workers[w].pc # "ack"
      /\ workers[w].acks = 0
      /\ workers[w].nacks <= 1
      /\ workers[w].pc = "done" => workers[w].nacks = 1

C4_FailedWriteStep ==
  \A w \in Workers :
    (/\ workers[w].pc = "create"
     /\ workers'[w].pc \in {"ack", "nack", "done"}
     /\ workers'[w].wrote = 0) => readings' = readings

C4_WriteFailedNack == []C4_FailedWriteState /\ [][C4_FailedWriteStep]_vars

C4_Witness ==
  \E w \in Workers :
    /\ workers[w].pc = "done"
    /\ WellTyped(PayloadOf(w))
    /\ workers[w].wrote = 0
    /\ workers[w].nacks = 1
    /\ workers[w].acks = 0
    /\ dbFailures > 0

\* -------------------------------------------------------------------- C5
\* C5: at-least-once delivery.  A valid (well-typed) HR message is never
\* acknowledged while no reading carrying its fields exists, and, with the
\* channel redelivering and storage failing only finitely often, every such
\* message on the channel is eventually persisted and acknowledged.
CarriesFields(k, p) ==
  /\ readings[k].sensor_timestamp = DbNum(p.timestamp.n)
  /\ readings[k].bpm = DbNum(p.bpm.n)
  /\ readings[k].rr_interval = DbNum(ScalarRR(p.rr_interval))
  /\ readings[k].energy = IF p.energy.t = "number" THEN DbNum(p.energy.n) ELSE DbNull

Persisted(i) == \E k \in ReadingsOf(i) : CarriesFields(k, channel[i].payload)

C5_NoAckWithoutReading ==
  \A i \in DOMAIN channel :
    (WellTyped(channel[i].payload) /\ channel[i].status = "acked") => Persisted(i)

C5_AtLeastOnce ==
  /\ []C5_NoAckWithoutReading
  /\ \A i \in 1..MaxMsgs :
       (i \in DOMAIN channel /\ WellTyped(channel[i].payload))
         ~> (i \in DOMAIN channel /\ channel[i].status = "acked" /\ Persisted(i))

C5_Witness ==
  \E i \in DOMAIN channel :
    /\ WellTyped(channel[i].payload)
    /\ channel[i].nacked
    /\ channel[i].status = "acked"
    /\ Persisted(i)

\* -------------------------------------------------------------------- C6
\* C6: a delivery of a JSON object whose type is absent or not "HR" is
\* classified Ignored, is acked exactly once, is never nacked and writes
\* nothing, whatever its other fields are.
C6_NonHRIgnored ==
  \A w \in Workers :
    (Busy(w) /\ IsObject(PayloadOf(w)) /\ PayloadOf(w).type # HR) =>
      /\ workers[w].pc \notin {"create", "nack"}
      /\ workers[w].nacks = 0
      /\ workers[w].wrote = 0
      /\ ReadingsOf(workers[w].msg) = {}
      /\ workers[w].pc \in {"ack", "done"} =>
           workers[w].log = "Ignoring non-HR message"
      /\ workers[w].pc = "done" => workers[w].acks = 1

C6_Witness ==
  \E w \in Workers :
    /\ workers[w].pc = "done"
    /\ IsObject(PayloadOf(w))
    /\ PayloadOf(w).type = JAbsent
    /\ PayloadOf(w).timestamp = JAbsent
    /\ PayloadOf(w).bpm = JNum(3)
    /\ workers[w].acks = 1
    /\ workers[w].log = "Ignoring non-HR message"

\* -------------------------------------------------------------------- C7
\* C7: a delivery of an HR object whose timestamp or bpm is missing or null
\* is acked exactly once, never nacked, and creates no reading, whatever
\* rr_interval and energy are.
C7_MissingRequiredAcked ==
  \A w \in Workers :
    (/\ Busy(w)
     /\ IsObject(PayloadOf(w))
     /\ PayloadOf(w).type = HR
     /\ (~Present(PayloadOf(w).timestamp) \/ ~Present(PayloadOf(w).bpm))) =>
      /\ workers[w].pc \notin {"create", "nack"}
      /\ workers[w].nacks = 0
      /\ workers[w].wrote = 0
      /\ ReadingsOf(workers[w].msg) = {}
      /\ workers[w].pc = "done" => workers[w].acks = 1

C7_Witness ==
  \E w \in Workers :
    /\ workers[w].pc = "done"
    /\ PayloadOf(w).type = HR
    /\ PayloadOf(w).timestamp = JNum(5)
    /\ PayloadOf(w).bpm = JNull
    /\ PayloadOf(w).rr_interval = JStr(BadText)
    /\ PayloadOf(w).energy = JStr(BadText)
    /\ workers[w].acks = 1
    /\ readings = <<>>

\* -------------------------------------------------------------------- C8
\* C8: every reading persisted for a valid HR message has the message's
\* timestamp, bpm and energy (null stays null) and, as rr_interval, the
\* scalar rr_interval, the first element of a non-empty sequence, or 0 for
\* an empty sequence, an absent or a null rr_interval.
C8_ReadingCarriesMessage ==
  \A k \in DOMAIN readings :
    LET p == channel[readings[k].msg].payload IN
      /\ ValidHR(p)
      /\ readings[k].sensor_timestamp = DbNum(p.timestamp.n)
      /\ readings[k].bpm = DbNum(p.bpm.n)
      /\ readings[k].energy =
           (IF Present(p.energy) THEN DbNum(p.energy.n) ELSE DbNull)
      /\ readings[k].rr_interval =
           (CASE p.rr_interval.t = "number" -> DbNum(p.rr_interval.n)
              [] p.rr_interval.t = "array" /\ p.rr_interval.s # <<>> ->
                   DbNum(p.rr_interval.s[1])
              [] OTHER -> DbNum(0))

C8_Witness ==
  \E k \in DOMAIN readings :
    /\ channel[readings[k].msg].payload = JObject(HR, JNum(0), JNum(0), JArr(<<7, 6>>), JNull)
    /\ readings[k].sensor_timestamp = DbNum(0)
    /\ readings[k].bpm = DbNum(0)
    /\ readings[k].rr_interval = DbNum(7)
    /\ readings[k].energy = DbNull

\* -------------------------------------------------------------------- C9
\* C9: round trip.  Every reading persisted for a message that
\* heartrate_callback published has the notification's bpm, timestamp and
\* energy, and as rr_interval the notification's scalar RR value or its
\* first RR sample (0 if it has none).
NotifiedBpm(n) == IF n.hr_data.tuple THEN n.hr_data.bpm ELSE Head(n.hr_data.items)
NotifiedRRSamples(n) ==
  IF n.hr_data.tuple THEN n.hr_data.rr.s ELSE Tail(n.hr_data.items)
NotifiedRR(n) ==
  IF n.hr_data.tuple /\ n.hr_data.rr.t = "num" THEN n.hr_data.rr.n
  ELSE IF NotifiedRRSamples(n) # <<>> THEN Head(NotifiedRRSamples(n))
  ELSE 0

C9_RoundTrip ==
  \A k \in DOMAIN readings :
    LET m == channel[readings[k].msg] IN
      m.from_producer =>
        /\ readings[k].bpm = DbNum(NotifiedBpm(m.src))
        /\ readings[k].sensor_timestamp = DbNum(m.src.timestamp.n)
        /\ readings[k].energy = ToDb(m.src.energy)
        /\ readings[k].rr_interval = DbNum(NotifiedRR(m.src))

\* -------------------------------------------------------------------- C10
\* C10: every persisted reading has a non-null sensor_timestamp, bpm and
\* rr_interval, whatever messages (with absent, null or wrongly typed
\* fields) the callbacks were handed.
C10_NoPartialRecord ==
  \A k \in DOMAIN readings :
    /\ ~readings[k].sensor_timestamp.null
    /\ ~readings[k].bpm.null
    /\ ~readings[k].rr_interval.null

C10_Witness ==
  \E k \in DOMAIN readings :
    /\ channel[readings[k].msg].payload.rr_interval = JAbsent
    /\ channel[readings[k].msg].payload.energy = JAbsent
    /\ readings[k].rr_interval = DbNum(0)
    /\ readings[k].energy = DbNull

\* -------------------------------------------------------------------- C11
\* C11: the store is append-only.  No step of the pipeline -- a consumer
\* callback on any path, a list, latest, stats or fetch-by-id query --
\* removes a persisted reading or changes its id or any of its fields.
C11_Kept ==
  \A k \in DOMAIN readings :
    k \in DOMAIN readings' /\ readings'[k] = readings[k]

C11_AppendOnly == [][C11_Kept]_vars

C11_Witness ==
  /\ Len(readings) >= 2
  /\ readings[1].msg # readings[2].msg
  /\ response.op = "list"
  /\ Len(response.ids) = 2
  /\ \E i \in DOMAIN channel : channel[i].nacked

\* -------------------------------------------------------------------- C12
\* C12: with concurrent workers, a create call that returns adds exactly one
\* reading, carrying the fields of the worker's own message, and leaves
\* every other reading as it was; ack and nack change the state of the
\* worker's own message only.
C12_WriteStep(w) ==
  (workers[w].pc = "create" /\ workers'[w].pc = "ack") =>
    /\ Len(readings') = Len(readings) + 1
    /\ \A k \in DOMAIN readings : readings'[k] = readings[k]
    /\ readings'[Len(readings')].msg = workers[w].msg
    /\ LET p == channel[workers[w].msg].payload
           r == readings'[Len(readings')]
       IN /\ r.sensor_timestamp = DbNum(p.timestamp.n)
          /\ r.bpm = DbNum(p.bpm.n)
          /\ r.rr_interval = DbNum(ScalarRR(p.rr_interval))
          /\ r.energy = (IF p.energy.t = "number" THEN DbNum(p.energy.n) ELSE DbNull)

C12_SettleStep(w) ==
  (workers[w].pc \in {"ack", "nack"} /\ workers'[w].pc = "done") =>
    /\ channel'[workers[w].msg].status =
         (IF workers[w].pc = "ack" THEN "acked" ELSE "queued")
    /\ \A j \in DOMAIN channel : j # workers[w].msg => channel'[j] = channel[j]

C12_WorkersIndependent ==
  [][\A w \in Workers : C12_WriteStep(w) /\ C12_SettleStep(w)]_vars

C12_Witness ==
  /\ workers[1].pc = "ack"
  /\ workers[2].pc = "ack"
  /\ workers[1].msg # workers[2].msg
  /\ channel[workers[1].msg].payload # channel[workers[2].msg].payload
  /\ Len(readings) = 2

\* -------------------------------------------------------------------- C13
\* C13: no de-duplication.  The readings of a message are as many as the
\* deliveries of it whose write succeeded, each carries the message's
\* fields, and ids are unique; so a redelivery after a crash between write
\* and ack stores a second, equal reading under a new id.
C13_NoDedup ==
  /\ \A a, b \in DOMAIN readings : a # b => readings[a].id # readings[b].id
  /\ \A i \in DOMAIN channel :
       /\ Cardinality(ReadingsOf(i)) = channel[i].writes
       /\ \A k \in ReadingsOf(i) : CarriesFields(k, channel[i].payload)

C13_Witness ==
  \E i \in DOMAIN channel :
    /\ channel[i].writes = 2
    /\ crashes > 0
    /\ channel[i].status = "acked"
    /\ \E a, b \in ReadingsOf(i) :
         /\ readings[a].id # readings[b].id
         /\ readings[a].sensor_timestamp = readings[b].sensor_timestamp
         /\ readings[a].bpm = readings[b].bpm
         /\ readings[a].rr_interval = readings[b].rr_interval
         /\ readings[a].energy = readings[b].energy

\* -------------------------------------------------------------------- C14
\* C14: once the termination event is set, heartrate_callback is not invoked
\* for any further notification, in live mode and in test mode.
C14_NoCallbackAfterFlag ==
  \A k \in DOMAIN handled : ~handled[k].after_quit

\* The part of C14 that the code keeps: test mode
C14_TestModeStops ==
  producer.test_mode => \A k \in DOMAIN handled : ~handled[k].after_quit

\* -------------------------------------------------------------------- C15
\* C15: after the termination event is set (user input or sensor
\* disconnect) the producer eventually has stopped notifications, removed
\* its input reader, left the connection context and returned from main
\* ("Bye."), in both modes, when the event loop runs every ready task.
C15_Terminated ==
  /\ ppc = "bye"
  /\ ~producer.notifying
  /\ ~producer.reader
  /\ ~producer.connected
  /\ producer.status = 0

C15_Terminates == producer.quit ~> C15_Terminated

C15_Witness ==
  /\ C15_Terminated
  /\ producer.quit
  /\ ~producer.test_mode
  /\ producer.add_reader_support
  /\ Len(handled) > 0

\* -------------------------------------------------------------------- C16
\* C16: with a channel configured, the topic holds exactly one message per
\* notification whose callback did not fail, built from that notification,
\* in the order the notifications were handed to the callback.
RECURSIVE PublishedOf(_)
PublishedOf(h) ==
  IF h = <<>> THEN <<>>
  ELSE (IF Head(h).outcome = "published" THEN <<Head(h).data>> ELSE <<>>)
         \o PublishedOf(Tail(h))

C16_OnePublishInOrder ==
  pubsub_publisher =>
    /\ Len(channel) = Len(PublishedOf(handled))
    /\ \A k \in DOMAIN channel :
         /\ channel[k].from_producer
         /\ channel[k].src = PublishedOf(handled)[k]
         /\ channel[k].payload = json_dumps(MessageData(channel[k].src))
    /\ \A k \in DOMAIN handled : handled[k].outcome \in {"published", "failed"}

C16_Witness ==
  /\ Len(handled) = 3
  /\ handled[2].outcome = "failed"
  /\ Len(channel) = 2
  /\ channel[1].src = handled[1].data
  /\ channel[2].src = handled[3].data
  /\ channel[1].payload # channel[2].payload

\* -------------------------------------------------------------------- C17
\* C17: a failure while building or publishing a message is logged and does
\* not leave heartrate_callback: every call returns normally, and a later
\* notification is still processed and published.
C17_Returned(k) == handled[k].outcome \in {"printed", "published", "failed"}

C17_FailureContained ==
  /\ ppc # "crashed"
  /\ \A k \in DOMAIN handled : C17_Returned(k)
  /\ (handled # <<>> /\ handled[Len(handled)].outcome = "failed")
       => plog = "Error publishing to Pub/Sub"
  /\ Cardinality({ k \in DOMAIN handled : handled[k].outcome = "published" })
       = Cardinality({ i \in DOMAIN channel : channel[i].from_producer })

C17_Witness ==
  /\ Len(handled) = 3
  /\ handled[1].outcome = "failed" /\ BuildRaises(handled[1].data)
  /\ handled[2].outcome = "failed" /\ ~BuildRaises(handled[2].data)
  /\ handled[3].outcome = "published"
  /\ Len(channel) = 1
  /\ channel[1].src = handled[3].data
  /\ plog = "Published to Pub/Sub"

\* -------------------------------------------------------------------- C18
\* C18: with no channel destination configured the producer starts
\* normally, the callback prints every event and publishes none, and the
\* producer does not fail or exit on account of the missing channel.
C18_LocalSink ==
  producer.init = "absent" =>
    /\ ~pubsub_publisher
    /\ \A k \in DOMAIN handled : handled[k].outcome = "printed"
    /\ handled # <<>> => plog = "data"
    /\ \A i \in DOMAIN channel : ~channel[i].from_producer
    /\ ppc # "crashed"
    /\ producer.status # 0 => ppc \in {"exit_no_device", "connect_failed"}

C18_Starts ==
  (ppc = "start" /\ producer'.init = "absent") => ppc' \in {"scan", "test_loop"}

AuthFailed(c) == c.failure \in {"credentials_error", "permission_denied"}

\* The consumer command after an authentication failure: ended with an
\* error status and a diagnostic, and no message was handed to a callback
C19_ConsumerFatal ==
  AuthFailed(cpc) =>
    /\ cpc.pc = "exit_error"
    /\ ExitStatus(cpc) # 0
    /\ cpc.error \in {"Error", "Permission denied"}
    /\ \A w \in Workers : workers[w] = IdleWorker
    /\ readings = <<>>
    /\ \A i \in DOMAIN channel :
         /\ channel[i].status = "queued"
         /\ ~channel[i].nacked
         /\ channel[i].writes = 0

\* The same for the producer
C19_ProducerFatal ==
  producer.init = "auth_error" =>
    /\ ppc \notin {"scan", "connect", "start_notify", "wait", "stop_notify",
                    "exit_context", "test_loop", "sleep", "bye"}
    /\ producer.status # 0
    /\ handled = <<>>

\* C19 as stated: an authentication failure of the channel at start-up is
\* fatal for the producer and for the consumer alike -- error status,
\* diagnostic, no retry, nothing processed.
C19_AuthFailureFatal == C19_ConsumerFatal /\ C19_ProducerFatal

\* What the producer does instead: it reports the failure, keeps no
\* publisher and goes on with the local sink
C19_ProducerFallsBack ==
  producer.init = "auth_error" =>
    /\ producer.diag = "Error: Authentication failed"
    /\ ~pubsub_publisher
    /\ \A k \in DOMAIN handled : handled[k].outcome = "printed"
    /\ \A i \in DOMAIN channel : ~channel[i].from_producer
    /\ ppc # "crashed"
    /\ producer.status # 0 => ppc \in {"exit_no_device", "connect_failed"}

\* No second attempt: the command that ended with an error stays ended
C19_NoRetry == cpc.pc = "exit_error" => cpc' = cpc

\* C19, amended: the failure is fatal for the consumer command only; the
\* producer prints the diagnostic and continues without the channel,
\* printing every notification and publishing none.
C19_AuthFailureConsumerFatal ==
  [](C19_ConsumerFatal /\ C19_ProducerFallsBack) /\ [][C19_NoRetry]_vars

C19_Witness ==
  /\ cpc.failure = "permission_denied"
  /\ Len(channel) = MaxMsgs
  /\ producer.init = "auth_error"
  /\ Len(handled) >= 2
  /\ ppc = "bye"

\* -------------------------------------------------------------------- C20
\* C20: in live mode, when the scan finds no device the producer exits with
\* a non-zero status; it has scanned once, never connected, and the
\* callback has handled and published nothing.
C20_NoDeviceFatal ==
  producer.device = "none" =>
    /\ ppc = "exit_no_device"
    /\ producer.status # 0
    /\ producer.scans = 1
    /\ producer.connects = 0
    /\ ~producer.connected
    /\ ~producer.notifying
    /\ handled = <<>>
    /\ \A i \in DOMAIN channel : ~channel[i].from_producer

C20_Witness ==
  /\ producer.device = "none"
  /\ ~producer.test_mode
  /\ producer.init = "ok"
  /\ producer.status = ExitNoDevice

\* ------------------------------------------- vocabulary of the query claims
\* The rows a window of n minutes covers at the present time
CoveredBy(n) == { k \in DOMAIN readings : readings[k].created_at >= now - n }

\* The window value is an integer numeral above zero; one too large for
\* the date arithmetic reaches back past every reading
PositiveWindow(m) == (m.kind = "int" /\ m.n > 0) \/ m.kind = "huge"
NotANumeral(m) == m.kind \in {"empty", "text"}

\* The row a response refers to by id
RowOf(id) == CHOOSE k \in DOMAIN readings : readings[k].id = id

\* The body of a list response holds exactly the rows K, newest first
ListsExactly(r, K) ==
  /\ Len(r.ids) = Cardinality(K)
  /\ { r.ids[a] : a \in DOMAIN r.ids } = { readings[k].id : k \in K }
  /\ \A a, b \in DOMAIN r.ids :
       a < b => readings[RowOf(r.ids[a])].created_at
                  >= readings[RowOf(r.ids[b])].created_at

\* -------------------------------------------------------------------- C21
\* C21: list with a positive integer window m returns exactly the readings
\* with created_at >= now - m, list without a window returns every reading,
\* and the result is ordered by descending created_at.
C21_ListWindow ==
  response.op = "list" =>
    /\ PositiveWindow(response.req) =>
         /\ response.status = 200
         /\ ListsExactly(response,
              IF response.req.kind = "int" THEN CoveredBy(response.req.n)
              ELSE DOMAIN readings)
    /\ response.req.kind = "absent" =>
         /\ response.status = 200
         /\ ListsExactly(response, DOMAIN readings)

\* The part of C21 that the code keeps: windows the date arithmetic can hold
C21_ListWindowInRange ==
  (response.op = "list" /\ response.req.kind \in {"int", "absent"}) =>
    /\ response.status = 200
    /\ ListsExactly(response,
         IF response.req.kind = "int" THEN CoveredBy(response.req.n)
         ELSE DOMAIN readings)

C21_InRangeWitness ==
  /\ response.op = "list"
  /\ response.req = Minutes("int", 1)
  /\ Len(readings) = 3
  /\ Len(response.ids) = 2
  /\ readings[RowOf(response.ids[1])].created_at
       > readings[RowOf(response.ids[2])].created_at

\* ------------------------------------------------------ aggregates, stated
\* v is total / count to the nearest tenth (v in tenths)
NearestTenth(v, total, count) ==
  LET d == 10 * total - v * count
  IN 2 * (IF d < 0 THEN 0 - d ELSE d) <= count

\* st is the aggregate of the rows K: size, least and greatest bpm, the two
\* means to one decimal place, earliest and latest created_at; of no rows,
\* count 0 and nothing else
AggregateOf(st, K) ==
  /\ st.count = Cardinality(K)
  /\ K = {} =>
       /\ st.avg_bpm.null /\ st.min_bpm.null /\ st.max_bpm.null
       /\ st.avg_rr_interval.null
       /\ st.time_range_start.null /\ st.time_range_end.null
  /\ K # {} =>
       /\ ~st.min_bpm.null /\ ~st.max_bpm.null
       /\ \E k \in K : readings[k].bpm.v = st.min_bpm.v
       /\ \A k \in K : readings[k].bpm.v >= st.min_bpm.v
       /\ \E k \in K : readings[k].bpm.v = st.max_bpm.v
       /\ \A k \in K : readings[k].bpm.v <= st.max_bpm.v
       /\ ~st.avg_bpm.null
       /\ NearestTenth(st.avg_bpm.v, SumOver(readings, K, "bpm"), Cardinality(K))
       /\ ~st.avg_rr_interval.null
       /\ NearestTenth(st.avg_rr_interval.v,
                       SumOver(readings, K, "rr_interval"), Cardinality(K))
       /\ ~st.time_range_start.null /\ ~st.time_range_end.null
       /\ \E k \in K : readings[k].created_at = st.time_range_start.v
       /\ \A k \in K : readings[k].created_at >= st.time_range_start.v
       /\ \E k \in K : readings[k].created_at = st.time_range_end.v
       /\ \A k \in K : readings[k].created_at <= st.time_range_end.v

\* -------------------------------------------------------------------- C22
\* C22: a window value that is not an integer numeral leaves list and stats
\* as they are without a window (same rows, no error), and no window value
\* whatever makes the request fail.
C22_WindowNeverRejected ==
  response.op \in {"list", "stats"} =>
    /\ response.status = 200
    /\ (NotANumeral(response.req) /\ response.op = "list")
         => ListsExactly(response, DOMAIN readings)
    /\ (NotANumeral(response.req) /\ response.op = "stats")
         => AggregateOf(response.stats, DOMAIN readings)

\* The part of C22 that the code keeps: values that are not numerals
C22_NonNumeralIgnored ==
  (response.op \in {"list", "stats"} /\ NotANumeral(response.req)) =>
    /\ response.status = 200
    /\ response.op = "list" => ListsExactly(response, DOMAIN readings)
    /\ response.op = "stats" => AggregateOf(response.stats, DOMAIN readings)

\* -------------------------------------------------------------------- C23
\* The rows whose created_at no other row exceeds
Newest == { k \in DOMAIN readings :
              \A j \in DOMAIN readings :
                readings[j].created_at <= readings[k].created_at }

\* C23 as stated: latest returns the reading with the greatest created_at,
\* which is the reading written last; on an empty store it answers 404.
C23_LatestIsLastWritten ==
  response.op = "latest" =>
    IF readings = <<>>
      THEN response.status = 404 /\ response.ids = <<>>
      ELSE /\ response.status = 200
           /\ Len(response.ids) = 1
           /\ RowOf(response.ids[1]) \in Newest
           /\ RowOf(response.ids[1]) = Len(readings)

\* C23, amended: latest returns a reading whose created_at is the greatest
\* (one of them when several share it), and that is the reading written
\* last whenever its created_at exceeds every other; 404 on an empty store.
C23_LatestIsNewest ==
  response.op = "latest" =>
    IF readings = <<>>
      THEN response.status = 404 /\ response.ids = <<>>
      ELSE /\ response.status = 200
           /\ Len(response.ids) = 1
           /\ RowOf(response.ids[1]) \in Newest
           /\ Newest = {Len(readings)} => RowOf(response.ids[1]) = Len(readings)

C23_Witness ==
  /\ response.op = "latest"
  /\ response.status = 200
  /\ Len(readings) = 3
  /\ Cardinality(Newest) = 2
  /\ response.ids = <<2>>

\* -------------------------------------------------------------------- C24
\* C24: stats is computed over the rows list returns for the same window at
\* the same time -- count, least and greatest bpm, the means of bpm and
\* rr_interval to one decimal place, earliest and latest created_at -- and
\* over no rows it is count 0 with every other field null.
C24_StatsOverListedSet ==
  (response.op = "stats" /\ response.req.kind # "huge") =>
    /\ response.status = 200
    /\ AggregateOf(response.stats,
         IF response.req.kind = "int" THEN CoveredBy(response.req.n)
         ELSE DOMAIN readings)

C24_Witness ==
  /\ response.op = "stats"
  /\ response.req = Minutes("int", 1)
  /\ Len(readings) = 3
  /\ response.stats.count = 2
  /\ response.stats.min_bpm.v < response.stats.max_bpm.v
  /\ response.stats.avg_bpm.v = 35
  /\ response.stats.time_range_start.v = response.stats.time_range_end.v

\* -------------------------------------------------------------------- C25
\* C25: every invocation of message_callback settles its message exactly
\* once before it returns.  A callback that is still running has called
\* neither ack nor nack; a callback that has reached its return has called
\* exactly one of them, once; the call it made settled the message the
\* invocation was handed, which was out for delivery until then; and the
\* callback returns only from that point.
Settlements(w) == workers[w].acks + workers[w].nacks

C25_SettledState ==
  \A w \in Workers :
    /\ workers[w].pc \in {"decode", "create", "ack", "nack"} =>
         Settlements(w) = 0
    /\ workers[w].pc = "done" =>
         /\ Settlements(w) = 1
         /\ workers[w].msg \in DOMAIN channel

C25_SettleStep ==
  \A w \in Workers :
    /\ (workers[w].pc # "idle" /\ workers'[w].pc = "idle" /\ crashes' = crashes)
         => (workers[w].pc = "done" /\ Settlements(w) = 1)
    /\ (workers[w].pc # "idle" /\ workers'[w].pc # "idle") =>
         LET i == workers[w].msg IN
           /\ workers'[w].msg = i
           /\ workers'[w].acks >= workers[w].acks
           /\ workers'[w].nacks >= workers[w].nacks
           /\ workers'[w].acks > workers[w].acks =>
                (channel[i].status = "leased" /\ channel'[i].status = "acked")
           /\ workers'[w].nacks > workers[w].nacks =>
                (channel[i].status = "leased" /\ channel'[i].status = "queued")

C25_SettlesExactlyOnce == []C25_SettledState /\ [][C25_SettleStep]_vars

C25_Witness ==
  \E w \in Workers :
    /\ workers[w].pc = "done"
    /\ workers[w].log = "Error processing message"
    /\ workers[w].nacks = 1
    /\ workers[w].acks = 0
    /\ dbFailures = 0

\* -------------------------------------------------------------------- C26
\* C26: for every notification, with its heart-rate data in tuple form or
\* in another sequence form, the message heartrate_callback published has
\* the notification's bpm as bpm, and its rr_interval is made of the
\* notification's RR samples only: the scalar RR value, or the sequence of
\* the RR samples without the bpm.
C26_PublishedFields ==
  \A i \in DOMAIN channel :
    channel[i].from_producer =>
      LET n == channel[i].src
          rr == channel[i].payload.rr_interval
      IN /\ channel[i].payload.bpm = JNum(NotifiedBpm(n))
         /\ rr.t \in {"number", "array"}
         /\ rr.t = "number" =>
              (n.hr_data.tuple /\ n.hr_data.rr.t = "num" /\ rr.n = n.hr_data.rr.n)
         /\ rr.t = "array" => rr.s = NotifiedRRSamples(n)

\* The same for notifications whose heart-rate data is a tuple
C26_PublishedFieldsOfTuple ==
  \A i \in DOMAIN channel :
    (channel[i].from_producer /\ channel[i].src.hr_data.tuple) =>
      LET n == channel[i].src
          rr == channel[i].payload.rr_interval
      IN /\ channel[i].payload.bpm = JNum(n.hr_data.bpm)
         /\ rr = (IF n.hr_data.rr.t = "num" THEN JNum(n.hr_data.rr.n)
                                          ELSE JArr(n.hr_data.rr.s))

====
